---- MODULE Spec2Model ----
(***************************************************************************)
(* Dead Drop: password-encrypted file transfer over a chain of QR codes.   *)
(* The sender encrypts a file, encodes the envelope in base64, cuts the    *)
(* text into chunks and wraps each chunk in a JSON frame.  The receiver    *)
(* (the ReceiverMode component) collects the frames its scanner hands to   *)
(* handleQRDetected and, on request, joins and decrypts them.              *)
(*                                                                         *)
(* These specifications share the state: Spec, the receiver as the user    *)
(* drives it, and SpecSettling, the same with every decryption settling;   *)
(* SpecCall, the receiver with its handlers also called directly;          *)
(* SpecChunk, chunkFile statement by statement; SpecSender, the SenderMode *)
(* component; SpecCrypto, encryptFile inside processFileAsync and          *)
(* decryptFile on what it is given; SpecScanner, the QRScanner component   *)
(* and its camera, and SpecScannerSettling, the same with every call of    *)
(* getUserMedia settling and every timer firing.                           *)
(*                                                                         *)
(* Bytes and base64 characters are numbers: a byte is 0..255, a base64     *)
(* character is its 6-bit value 0..63 and PadChar is '='.  A JavaScript    *)
(* string that holds base64 text is the sequence of these numbers.         *)
(***************************************************************************)
EXTENDS Integers, Sequences, FiniteSets, TLC

(***************************************************************************)
(* Bounds of the model.                                                    *)
(***************************************************************************)
\* requested chunk size, in bytes, of the transmission the receiver is fed
ChunkSizeBytes == 48
\* decryptions that may be in flight at once
MaxInflight == 2
\* files a run may download
MaxDownloads == 2
\* frames of other origin a session may be fed
MaxOther == 1
\* longest transport text handed to chunkFile on its own
MaxTextLen == 5
\* largest chunk size, in bytes, handed to chunkFile on its own
MaxCapacity == 7

(***************************************************************************)
(* Program constants.                                                      *)
(***************************************************************************)
MAX_FILE_SIZE == 52428800
MaxCharsCeiling == 1500
SaltLength == 16
IvLength == 12
TagLength == 16
PadChar == 64
\* in a text, any character outside the base64 alphabet, and any ASCII whitespace
InvalidChar == 65
Whitespace == 66

Min(a, b) == IF a < b THEN a ELSE b

SumSeq(s) ==
  LET sum[i \in 0..Len(s)] == IF i = 0 THEN 0 ELSE sum[i - 1] + s[i]
  IN  sum[Len(s)]

\* position-weighted sum, odd weights (used by the stand-in authentication tag)
WeightedSum(s) ==
  LET sum[i \in 0..Len(s)] == IF i = 0 THEN 0 ELSE sum[i - 1] + (2 * i - 1) * s[i]
  IN  sum[Len(s)]

Concat(ss) ==
  LET cat[i \in 0..Len(ss)] == IF i = 0 THEN <<>> ELSE cat[i - 1] \o ss[i]
  IN  cat[Len(ss)]

(***************************************************************************)
(* btoa: three bytes become four characters, the tail is padded with '='.  *)
(***************************************************************************)
btoa(bytes) ==
  LET n == Len(bytes)
      groups == (n + 2) \div 3
      ByteAt(i) == IF i <= n THEN bytes[i] ELSE 0
      Quad(g) == ByteAt(3 * g + 1) * 65536 + ByteAt(3 * g + 2) * 256 + ByteAt(3 * g + 3)
      CharAt(k) ==
        LET g == (k - 1) \div 4
            j == (k - 1) % 4
        IN  IF j = 0 THEN Quad(g) \div 262144
            ELSE IF j = 1 THEN (Quad(g) \div 4096) % 64
            ELSE IF j = 2 THEN IF 3 * g + 2 > n THEN PadChar ELSE (Quad(g) \div 64) % 64
            ELSE IF 3 * g + 3 > n THEN PadChar ELSE Quad(g) % 64
  IN  SubSeq([k \in 1..(4 * groups) |-> CharAt(k)], 1, 4 * groups)

(***************************************************************************)
(* atob: the forgiving base64 decode.  ASCII whitespace is removed; up to  *)
(* two trailing '=' are dropped when the length is a multiple of four; a   *)
(* length of 1 modulo 4, any other '=' or any character outside the        *)
(* alphabet is an error (InvalidCharacterError); leftover bits are         *)
(* discarded.                                                              *)
(***************************************************************************)
IsNotWhitespace(c) == c # Whitespace

atob(data) ==
  LET text == SelectSeq(data, IsNotWhitespace)
      n == Len(text)
      pads == IF n > 0 /\ n % 4 = 0
              THEN IF text[n] = PadChar
                   THEN IF text[n - 1] = PadChar THEN 2 ELSE 1
                   ELSE 0
              ELSE 0
      m == n - pads
      body == SubSeq(text, 1, m)
      bad == m % 4 = 1 \/ \E i \in 1..m : body[i] \notin 0..63
      Shift(o) == IF o = 0 THEN 16 ELSE IF o = 2 THEN 4 ELSE 1
      ByteAt(j) ==
        LET p == 8 * (j - 1)
            c == p \div 6 + 1
            o == p % 6
        IN  ((body[c] * 64 + body[c + 1]) \div Shift(o)) % 256
  IN  IF bad THEN [ok |-> FALSE, bytes |-> <<>>]
      ELSE [ok |-> TRUE,
            bytes |-> SubSeq([j \in 1..((m * 6) \div 8) |-> ByteAt(j)], 1, (m * 6) \div 8)]

\* the character code of a character of a base64 text, and back
CharCode(c) ==
  IF c <= 25 THEN 65 + c
  ELSE IF c <= 51 THEN 71 + c
  ELSE IF c <= 61 THEN c - 4
  ELSE IF c = 62 THEN 43
  ELSE IF c = 63 THEN 47
  ELSE 61

CharOf(code) ==
  IF code \in 65..90 THEN code - 65
  ELSE IF code \in 97..122 THEN code - 71
  ELSE IF code \in 48..57 THEN code + 4
  ELSE IF code = 43 THEN 62
  ELSE IF code = 47 THEN 63
  ELSE IF code = 61 THEN PadChar
  ELSE IF code \in {9, 10, 12, 13, 32} THEN Whitespace
  ELSE InvalidChar

Pow2(k) == IF k = 0 THEN 1 ELSE IF k = 1 THEN 2 ELSE IF k = 2 THEN 4
           ELSE IF k = 3 THEN 8 ELSE IF k = 4 THEN 16 ELSE IF k = 5 THEN 32
           ELSE IF k = 6 THEN 64 ELSE 128

\* the text with bit k of the character at position pos flipped
flipBit(text, pos, k) ==
  LET code == CharCode(text[pos])
      flipped == IF (code \div Pow2(k)) % 2 = 1 THEN code - Pow2(k) ELSE code + Pow2(k)
  IN  [text EXCEPT ![pos] = CharOf(flipped)]

\* arrayBufferToBase64: the bytes become a binary string, then btoa
arrayBufferToBase64(buffer) == btoa(buffer)

\* base64ToArrayBuffer: atob, then one byte per character of the binary string
base64ToArrayBuffer(base64) == atob(base64)

(***************************************************************************)
(* Stand-ins for the Web Crypto primitives.  PBKDF2 is a keyed digest of   *)
(* password and salt; AES-GCM adds a key stream to the plaintext and       *)
(* appends a TagLength-byte tag over key, nonce and ciphertext, which      *)
(* decryption recomputes and compares.  The digests are chosen so that a   *)
(* change of the password, or of any one or two neighbouring bytes of      *)
(* salt, nonce, ciphertext or tag, changes the tag that is expected or the *)
(* tag that is found, as it does (up to a negligible probability) for the  *)
(* real primitives.                                                        *)
(***************************************************************************)
SumOdd(s) ==
  LET sum[i \in 0..Len(s)] ==
        IF i = 0 THEN 0 ELSE sum[i - 1] + (IF i % 2 = 1 THEN s[i] ELSE 0)
  IN  sum[Len(s)]

SumEven(s) == SumSeq(s) - SumOdd(s)

deriveKey_SaltOnly(passwordData, salt) ==
  <<0, (SumOdd(salt) + Len(salt)) % 256, SumEven(salt) % 256>>

deriveKey(passwordData, salt) ==
  <<(31 * SumSeq(passwordData) + Len(passwordData)) % 256,
    (SumOdd(salt) + Len(salt)) % 256,
    SumEven(salt) % 256>>

GcmTag(key, iv, ct) ==
  LET all == key \o iv \o ct
      a == SumOdd(all)
      b == SumEven(all)
      w == WeightedSum(all)
      TagByte(j) ==
        IF j = 1 THEN a % 256
        ELSE IF j = 2 THEN b % 256
        ELSE IF j = 3 THEN w % 256
        ELSE IF j = 4 THEN (Len(iv) + 31 * Len(ct)) % 256
        ELSE (j * w + a + 3 * b + j) % 256
  IN  SubSeq([j \in 1..TagLength |-> TagByte(j)], 1, TagLength)

GcmStream(key, iv, i) == (SumSeq(key) + SumSeq(iv) + i) % 256

subtleEncrypt(key, iv, plaintext) ==
  LET ct == SubSeq([i \in 1..Len(plaintext) |->
                      (plaintext[i] + GcmStream(key, iv, i)) % 256], 1, Len(plaintext))
  IN  ct \o GcmTag(key, iv, ct)

\* crypto.subtle.decrypt: data shorter than the tag and a tag that does not
\* verify are both an OperationError
subtleDecrypt(key, iv, encrypted) ==
  LET n == Len(encrypted) - TagLength
      ct == SubSeq(encrypted, 1, n)
      tag == SubSeq(encrypted, n + 1, Len(encrypted))
  IN  IF n < 0 \/ tag # GcmTag(key, iv, ct)
      THEN [ok |-> FALSE, error |-> "OperationError", bytes |-> <<>>]
      ELSE [ok |-> TRUE, error |-> "",
            bytes |-> SubSeq([i \in 1..n |->
                               (ct[i] + 256 - GcmStream(key, iv, i)) % 256], 1, n)]

(***************************************************************************)
(* encryptFile.  A file is [name, bytes]; its size is Len(bytes).  salt    *)
(* and iv are the values crypto.getRandomValues returns.  The three input  *)
(* checks throw before the try block, so their errors are not rewrapped.   *)
(***************************************************************************)
inputError_NoPasswordCheck(file, pass) ==
  IF Len(file.bytes) = 0 THEN "Invalid file or empty file"
  ELSE IF Len(file.bytes) > MAX_FILE_SIZE THEN "File too large"
  ELSE ""

inputError(file, pass) ==
  IF Len(file.bytes) = 0 THEN "Invalid file or empty file"
  ELSE IF Len(pass) < 1 THEN "Password is required"
  ELSE IF Len(file.bytes) > MAX_FILE_SIZE THEN "File too large"
  ELSE ""

encryptFile(file, pass, salt, iv) ==
  IF inputError(file, pass) # ""
  THEN [ok |-> FALSE, error |-> inputError(file, pass), text |-> <<>>]
  ELSE LET aesKey == deriveKey(pass, salt)
           encryptedBuffer == subtleEncrypt(aesKey, iv, file.bytes)
           resultArray == salt \o iv \o encryptedBuffer
       IN  [ok |-> TRUE, error |-> "", text |-> arrayBufferToBase64(resultArray)]

(***************************************************************************)
(* decryptFile.  Whatever is thrown inside the try block (by atob, by      *)
(* crypto.subtle.decrypt) is caught and rethrown as an Error whose message *)
(* is "Decryption failed: " followed by the message of what was caught.    *)
(* The slices are taken whatever the length of the decoded array.          *)
(***************************************************************************)
DecryptionFailed(inner) == <<"Decryption failed: ", inner>>

\* (variant: the nonce is sliced from the wrong offset)
decryptFile_IvFromSalt(encryptedData, pass, name) ==
  LET decoded == base64ToArrayBuffer(encryptedData)
      encryptedArray == decoded.bytes
      len == Len(encryptedArray)
      salt == SubSeq(encryptedArray, 1, Min(SaltLength, len))
      iv == SubSeq(encryptedArray, 1, Min(IvLength, len))
      encrypted == SubSeq(encryptedArray, SaltLength + IvLength + 1, len)
      aesKey == deriveKey(pass, salt)
      decrypted == subtleDecrypt(aesKey, iv, encrypted)
      NoBytes == [name |-> name, bytes |-> <<>>]
  IN  IF ~decoded.ok
      THEN [ok |-> FALSE, error |-> DecryptionFailed("InvalidCharacterError"),
            file |-> NoBytes]
      ELSE IF ~decrypted.ok
      THEN [ok |-> FALSE, error |-> DecryptionFailed(decrypted.error), file |-> NoBytes]
      ELSE [ok |-> TRUE, error |-> <<>>,
            file |-> [name |-> name, bytes |-> decrypted.bytes]]

decryptFile(encryptedData, pass, name) ==
  LET decoded == base64ToArrayBuffer(encryptedData)
      encryptedArray == decoded.bytes
      len == Len(encryptedArray)
      salt == SubSeq(encryptedArray, 1, Min(SaltLength, len))
      iv == SubSeq(encryptedArray, SaltLength + 1, Min(SaltLength + IvLength, len))
      encrypted == SubSeq(encryptedArray, SaltLength + IvLength + 1, len)
      aesKey == deriveKey(pass, salt)
      decrypted == subtleDecrypt(aesKey, iv, encrypted)
      NoBytes == [name |-> name, bytes |-> <<>>]
  IN  IF ~decoded.ok
      THEN [ok |-> FALSE, error |-> DecryptionFailed("InvalidCharacterError"),
            file |-> NoBytes]
      ELSE IF ~decrypted.ok
      THEN [ok |-> FALSE, error |-> DecryptionFailed(decrypted.error), file |-> NoBytes]
      ELSE [ok |-> TRUE, error |-> <<>>,
            file |-> [name |-> name, bytes |-> decrypted.bytes]]

(***************************************************************************)
(* chunkFile and reconstructFile.                                          *)
(***************************************************************************)
maxCharsPerChunk_NoCeiling(chunkSizeBytes) == chunkSizeBytes \div 2

maxCharsPerChunk(chunkSizeBytes) == Min(MaxCharsCeiling, chunkSizeBytes \div 2)

chunkFile(data, chunkSizeBytes) ==
  LET maxChars == maxCharsPerChunk(chunkSizeBytes)
      \* the parts pushed by the while loop from currentIndex on
      loop[currentIndex \in 0..Len(data)] ==
        IF currentIndex < Len(data)
        THEN LET endIndex == Min(currentIndex + maxChars, Len(data))
             IN  <<SubSeq(data, currentIndex + 1, endIndex)>> \o loop[endIndex]
        ELSE <<>>
  IN  loop[0]

reconstructFile(parts) == Concat(parts)

(***************************************************************************)
(* JSON.  A scanned string either is the JSON text of a value or is not    *)
(* JSON at all.  A number or string inside a record keeps its JavaScript   *)
(* type, which typeof reads.                                               *)
(***************************************************************************)
\* Str(n) is the string whose text is the numeral n
Num(n) == [type |-> "number", val |-> n]
Str(n) == [type |-> "string", val |-> n]
typeof(v) == v.type

JSONstringify(value) == [kind |-> "json", value |-> value]
PlainText(t) == [kind |-> "text", text |-> t]
\* JSON.parse throws a SyntaxError on a string that is not JSON
JSONparseThrows(data) == data.kind # "json"
JSONparse(data) == data.value

(***************************************************************************)
(* The frames of one transmission: one JSON string per chunk, carrying     *)
(* index, total, filename and size next to the chunk.                      *)
(***************************************************************************)
\* (variant: the frames are numbered from one)
qrContent_FromOne(parts, i, file) ==
  LET metadata == [index |-> Num(i + 1),
                   total |-> Num(Len(parts)),
                   filename |-> file.name,
                   size |-> Len(file.bytes)]
  IN  JSONstringify([metadata |-> metadata, data |-> parts[i + 1]])

qrContent(parts, i, file) ==
  LET metadata == [index |-> Num(i),
                   total |-> Num(Len(parts)),
                   filename |-> file.name,
                   size |-> Len(file.bytes)]
  IN  JSONstringify([metadata |-> metadata, data |-> parts[i + 1]])

qrDataOf(parts, file) ==
  SubSeq([k \in 1..Len(parts) |-> qrContent(parts, k - 1, file)], 1, Len(parts))

\* the sender: encrypt, chunk, frame (an encryption error leaves no frames)
processFile(file, pass, chunkSizeBytes, salt, iv) ==
  LET encryptedData == encryptFile(file, pass, salt, iv)
  IN  IF ~encryptedData.ok THEN <<>>
      ELSE qrDataOf(chunkFile(encryptedData.text, chunkSizeBytes), file)

(***************************************************************************)
(* What the receiver is fed.  One transmission of the sender, strings that *)
(* are not frames, and frames that do not belong to the transmission.      *)
(***************************************************************************)
FileA == [name |-> "a.txt", bytes |-> <<104, 105>>]
PasswordA == <<112, 119>>
WrongPassword == <<120>>
NoPassword == <<>>
SaltA == SubSeq([i \in 1..SaltLength |-> i], 1, SaltLength)
IvA == SubSeq([i \in 1..IvLength |-> 2 * i], 1, IvLength)

Transmission == processFile(FileA, PasswordA, ChunkSizeBytes, SaltA, IvA)
TxTotal == Len(Transmission)

Frame(index, total, name, size, data) ==
  JSONstringify([metadata |-> [index |-> index, total |-> total,
                               filename |-> name, size |-> size],
                 data |-> data])

\* strings that do not parse as a frame
NotJson == PlainText("hello")
NoMetadata == JSONstringify([data |-> <<1, 2>>])
IndexNotNumber == Frame(Str(0), Num(TxTotal), FileA.name, 2, <<1, 2>>)
TotalNotNumber == Frame(Num(0), Str(TxTotal), FileA.name, 2, <<1, 2>>)
ForeignStrings == {NotJson, NoMetadata, IndexNotNumber, TotalNotNumber}

\* frames of other origin
OtherFile == Frame(Num(1), Num(TxTotal), "b.txt", 2, <<5, 6>>)
OtherTotal == Frame(Num(1), Num(TxTotal + 1), FileA.name, 2, <<5, 6>>)
OtherPayload ==
  Frame(Num(0), Num(TxTotal), FileA.name, 2, flipBit(JSONparse(Transmission[1]).data, 1, 1))
NegativeIndex == Frame(Num(-1), Num(TxTotal), FileA.name, 2, <<8>>)
IndexPastTotal == Frame(Num(TxTotal), Num(TxTotal), FileA.name, 2, <<9>>)
NoName == Frame(Num(0), Num(TxTotal), "", 2, <<3>>)
ZeroTotal == Frame(Num(0), Num(0), FileA.name, 2, <<4>>)
\* the frame of index 1 of the transmission, with another size
OtherSize ==
  JSONstringify([JSONparse(Transmission[2]) EXCEPT !.metadata.size = 999])
OtherFrames ==
  {OtherFile, OtherTotal, OtherPayload, NegativeIndex, IndexPastTotal, NoName, ZeroTotal,
   OtherSize}

TransmissionFrames == {Transmission[k] : k \in 1..TxTotal}
RawInputs == TransmissionFrames \cup ForeignStrings \cup OtherFrames
Passwords == {NoPassword, PasswordA, WrongPassword}

(***************************************************************************)
(* State of the ReceiverMode component, of the handler the scanner holds,  *)
(* and of the decryptions in flight.                                       *)
(***************************************************************************)
VARIABLES
  password,          \* useState("")
  scanningStarted,   \* useState(false)
  chunks,            \* useState(new Map()): index -> parsed frame
  totalChunks,       \* useState(0)
  filename,          \* useState("")
  isReconstructing,  \* useState(false)
  scanHandler,       \* the chunks, totalChunks and filename closed over by the
                     \* handleQRDetected the scanner's interval calls
  inflight,          \* reconstructAndDecrypt calls awaiting decryptFile
  downloads,         \* files handed to the browser for download
  lastOp,            \* the last operation, its input and its outcome
  fedFrames,         \* indices of Transmission observed in this session
  fedOther,          \* number of frames of other origin observed in this session
  chunking,          \* the call of chunkFile in progress: its arguments and locals
  sender,            \* state of the SenderMode component
  crypto,            \* the call of processFileAsync in progress (encryptFile,
                     \* then the frames) and the last call of decryptFile
  scanner            \* the QRScanner component: its state, refs, timers, the
                     \* getUserMedia calls it awaits and the streams it got

vars == <<password, scanningStarted, chunks, totalChunks, filename,
          isReconstructing, scanHandler, inflight, downloads, lastOp,
          fedFrames, fedOther, chunking, sender, crypto, scanner>>

\* the part of the state the receiver never touches
senderSide == <<chunking, sender, crypto, scanner>>

\* the part of the state the sender never touches
receiverSide == <<password, scanningStarted, chunks, totalChunks, filename,
                  isReconstructing, scanHandler, inflight, downloads, lastOp,
                  fedFrames, fedOther, scanner>>

\* the part of the state the scanner never touches
scannerOutside == <<password, scanningStarted, chunks, totalChunks, filename,
                    isReconstructing, scanHandler, inflight, downloads, lastOp,
                    fedFrames, fedOther, chunking, sender, crypto>>

\* no call of chunkFile has been made
\* (previous: what the call before this one returned, when it was made with
\* the same arguments)
NoPrevious == [called |-> FALSE, chunks |-> <<>>]
NoCall == [pc |-> "idle", data |-> <<>>, chunkSizeBytes |-> 0, maxCharsPerChunk |-> 0,
           currentIndex |-> 0, chunks |-> <<>>, previous |-> NoPrevious]

\* the SenderMode component before a file is selected: useState(null),
\* useState(""), useState([]), useState(0), useState(false)
NoFile == [name |-> "", bytes |-> <<>>]
NoTransmission == [file |-> NoFile, fileSelected |-> FALSE, password |-> NoPassword,
                   chunkSize |-> ChunkSizeBytes, qrCodes |-> <<>>, currentQR |-> 0,
                   transmissionStarted |-> FALSE, toast |-> "none"]

\* decryptFile has not been called
NoDecrypt == [made |-> FALSE, encryptedData |-> <<>>, password |-> NoPassword,
              ok |-> FALSE, error |-> <<>>, file |-> NoFile]
\* processFileAsync has not been called
NoCrypto == [pc |-> "idle", file |-> NoFile, password |-> NoPassword, salt |-> <<>>,
             aesKey |-> <<>>, text |-> <<>>, error |-> "", qrData |-> <<>>,
             dec |-> NoDecrypt]

EmptyMap == [i \in {} |-> 0]
MapSet(map, key, value) ==
  [i \in DOMAIN map \cup {key} |-> IF i = key THEN value ELSE map[i]]
size(map) == Cardinality(DOMAIN map)

Closure == [chunks |-> chunks, totalChunks |-> totalChunks, filename |-> filename]

\* the page before a QRScanner is mounted: the environment is not looked at
\* yet, no call of getUserMedia is pending, no stream was acquired.  The
\* state of the component is that of its useState and useRef initial values
NoEnv == [secure |-> FALSE, supported |-> FALSE, camera |-> "unknown"]
NoScanner ==
  [env |-> NoEnv, instance |-> 0, mounted |-> FALSE, starts |-> 0,
   isScanning |-> FALSE, isLoading |-> FALSE, error |-> "none", stream |-> 0,
   lastScannedData |-> "null", scanInterval |-> FALSE,
   srcObject |-> 0, handlers |-> FALSE,
   pending |-> <<>>, tracks |-> <<>>, retryTimers |-> <<>>, toast |-> "none"]

Init ==
  /\ password = NoPassword
  /\ scanningStarted = FALSE
  /\ chunks = EmptyMap
  /\ totalChunks = 0
  /\ filename = ""
  /\ isReconstructing = FALSE
  /\ scanHandler = Closure
  /\ inflight = <<>>
  /\ downloads = <<>>
  /\ lastOp = [op |-> "init"]
  /\ fedFrames = {}
  /\ fedOther = 0
  /\ chunking = NoCall
  /\ sender = NoTransmission
  /\ crypto = NoCrypto
  /\ scanner = NoScanner

(***************************************************************************)
(* START CAMERA SCANNING: the scanner mounts and starts its interval with  *)
(* the scanForQR, hence the handleQRDetected, of this render.              *)
(***************************************************************************)
startScanning ==
  /\ ~scanningStarted
  /\ scanningStarted' = TRUE
  /\ scanHandler' = Closure
  /\ lastOp' = [op |-> "startScanning"]
  /\ UNCHANGED <<password, chunks, totalChunks, filename, isReconstructing,
                 inflight, downloads, fedFrames, fedOther>>
  /\ UNCHANGED senderSide

(***************************************************************************)
(* The scanner's camera is stopped and started again: the new interval     *)
(* calls the handler of the render in which it is started.                 *)
(***************************************************************************)
startCamera ==
  /\ scanningStarted
  /\ scanHandler # Closure
  /\ scanHandler' = Closure
  /\ lastOp' = [op |-> "startCamera"]
  /\ UNCHANGED <<password, scanningStarted, chunks, totalChunks, filename,
                 isReconstructing, inflight, downloads, fedFrames, fedOther>>
  /\ UNCHANGED senderSide

(***************************************************************************)
(* handleQRDetected(data), called by the scanner's interval.  The handler  *)
(* reads chunks, totalChunks and filename of the render that created it    *)
(* (scanHandler) and writes the component's state through the setters.     *)
(***************************************************************************)
\* (variant: the types of index and total are not looked at)
IsValidChunk_NoTypeof(data) ==
  /\ ~JSONparseThrows(data)
  /\ "metadata" \in DOMAIN JSONparse(data)

\* the validation of the handler: parse, metadata, typeof index and total
\* (variant: a frame whose size is not that of the first file is not a chunk)
IsValidChunk_ChecksSize(data) ==
  /\ ~JSONparseThrows(data)
  /\ "metadata" \in DOMAIN JSONparse(data)
  /\ typeof(JSONparse(data).metadata.index) = "number"
  /\ typeof(JSONparse(data).metadata.total) = "number"
  /\ JSONparse(data).metadata.size = Len(FileA.bytes)

IsValidChunk(data) ==
  /\ ~JSONparseThrows(data)
  /\ "metadata" \in DOMAIN JSONparse(data)
  /\ typeof(JSONparse(data).metadata.index) = "number"
  /\ typeof(JSONparse(data).metadata.total) = "number"

IsOther(data) == IsValidChunk(data) /\ data \notin TransmissionFrames

\* the session the observed strings are accounted to
NoteFed(data) ==
  /\ fedFrames' = IF data \in TransmissionFrames
                  THEN fedFrames \cup {JSONparse(data).metadata.index.val}
                  ELSE fedFrames
  /\ fedOther' = IF IsOther(data) THEN fedOther + 1 ELSE fedOther

\* what a call of the handler sets: handler is what its closure holds, now is
\* the state of the component
afterQRDetected(handler, now, data) ==
  IF ~IsValidChunk(data)
  THEN \* catch: toast "Invalid QR Code"
       [chunks |-> now.chunks, totalChunks |-> now.totalChunks,
        filename |-> now.filename, outcome |-> "Invalid QR Code"]
  ELSE LET parsed == JSONparse(data)
           metadata == parsed.metadata
           first == handler.totalChunks = 0
           wrongFile == handler.filename # "" /\ metadata.filename # handler.filename
           duplicate == metadata.index.val \in DOMAIN handler.chunks
           newChunks == MapSet(handler.chunks, metadata.index.val, parsed)
       IN  [\* set total chunks and filename from first scan
            totalChunks |-> IF first THEN metadata.total.val ELSE now.totalChunks,
            filename |-> IF first THEN metadata.filename ELSE now.filename,
            chunks |-> IF wrongFile \/ duplicate THEN now.chunks ELSE newChunks,
            outcome |-> IF wrongFile THEN "Wrong File"
                        ELSE IF duplicate THEN "already received"
                        ELSE IF size(newChunks) = metadata.total.val
                        THEN "All Chunks Received"
                        ELSE "QR Code Scanned"]

handleQRDetected(data) ==
  /\ scanningStarted
  /\ IsOther(data) => fedOther < MaxOther
  /\ NoteFed(data)
  /\ UNCHANGED <<password, scanningStarted, isReconstructing, scanHandler,
                 inflight, downloads>>
  /\ UNCHANGED senderSide
  /\ LET after == afterQRDetected(scanHandler, Closure, data)
     IN  /\ chunks' = after.chunks
         /\ totalChunks' = after.totalChunks
         /\ filename' = after.filename
         /\ lastOp' = [op |-> "handleQRDetected", outcome |-> after.outcome]

(***************************************************************************)
(* The password field.                                                     *)
(***************************************************************************)
setPassword(value) ==
  /\ password # value
  /\ password' = value
  /\ lastOp' = [op |-> "setPassword"]
  /\ UNCHANGED <<scanningStarted, chunks, totalChunks, filename, isReconstructing,
                 scanHandler, inflight, downloads, fedFrames, fedOther>>
  /\ UNCHANGED senderSide

(***************************************************************************)
(* reconstructAndDecrypt, up to its await: the password check, the         *)
(* completeness check, the sort by index, reconstructFile, and the call of *)
(* decryptFile with the joined text, the password and the filename.        *)
(***************************************************************************)
RECURSIVE sortedChunks(_)
sortedChunks(map) ==
  IF DOMAIN map = {} THEN <<>>
  ELSE LET least == CHOOSE i \in DOMAIN map : \A j \in DOMAIN map : i <= j
       IN  <<map[least]>> \o sortedChunks([j \in DOMAIN map \ {least} |-> map[j]])

chunkData(map) ==
  LET sorted == sortedChunks(map)
  IN  SubSeq([k \in 1..Len(sorted) |-> sorted[k].data], 1, Len(sorted))

\* (variant: a refusal for missing chunks clears the collected frames)
reconstructAndDecrypt_RefusalClears ==
  /\ UNCHANGED <<password, scanningStarted, scanHandler, downloads, fedFrames, fedOther>>
  /\ UNCHANGED senderSide
  /\ IF password = NoPassword
     THEN /\ lastOp' = [op |-> "reconstructAndDecrypt", outcome |-> "Password Required"]
          /\ UNCHANGED <<chunks, totalChunks, filename, isReconstructing, inflight>>
     ELSE IF size(chunks) # totalChunks
     THEN /\ lastOp' = [op |-> "reconstructAndDecrypt", outcome |-> "Missing Chunks",
                        needed |-> totalChunks - size(chunks)]
          /\ chunks' = EmptyMap
          /\ totalChunks' = 0
          /\ filename' = ""
          /\ UNCHANGED <<isReconstructing, inflight>>
     ELSE /\ Len(inflight) < MaxInflight
          /\ Len(inflight) + Len(downloads) < MaxDownloads
          /\ isReconstructing' = TRUE
          /\ inflight' = Append(inflight,
                                [encryptedData |-> reconstructFile(chunkData(chunks)),
                                 password |-> password,
                                 filename |-> filename])
          /\ lastOp' = [op |-> "reconstructAndDecrypt", outcome |-> "Decrypting"]
          /\ UNCHANGED <<chunks, totalChunks, filename>>

reconstructAndDecrypt ==
  /\ UNCHANGED <<password, scanningStarted, chunks, totalChunks, filename,
                 scanHandler, downloads, fedFrames, fedOther>>
  /\ UNCHANGED senderSide
  /\ IF password = NoPassword
     THEN /\ lastOp' = [op |-> "reconstructAndDecrypt", outcome |-> "Password Required"]
          /\ UNCHANGED <<isReconstructing, inflight>>
     ELSE IF size(chunks) # totalChunks
     THEN /\ lastOp' = [op |-> "reconstructAndDecrypt", outcome |-> "Missing Chunks",
                        needed |-> totalChunks - size(chunks)]
          /\ UNCHANGED <<isReconstructing, inflight>>
     ELSE /\ Len(inflight) < MaxInflight
          /\ Len(inflight) + Len(downloads) < MaxDownloads
          /\ isReconstructing' = TRUE
          /\ inflight' = Append(inflight,
                                [encryptedData |-> reconstructFile(chunkData(chunks)),
                                 password |-> password,
                                 filename |-> filename])
          /\ lastOp' = [op |-> "reconstructAndDecrypt", outcome |-> "Decrypting"]

(***************************************************************************)
(* The rest of reconstructAndDecrypt, once decryptFile settles: on success *)
(* the download and the reset of the state, on failure the toast; in both  *)
(* cases isReconstructing is cleared.  Unmounting the scanner (scanning    *)
(* off) clears its interval.                                               *)
(***************************************************************************)
Remove(seq, k) == SubSeq(seq, 1, k - 1) \o SubSeq(seq, k + 1, Len(seq))

\* (variant: the reset after the download leaves the password in the field)
decryptSettles_KeepsPassword(k) ==
  LET call == inflight[k]
      decryptedFile == decryptFile(call.encryptedData, call.password, call.filename)
  IN  /\ inflight' = Remove(inflight, k)
      /\ isReconstructing' = FALSE
      /\ UNCHANGED <<scanHandler, password>>
      /\ UNCHANGED senderSide
      /\ IF decryptedFile.ok
         THEN /\ downloads' = Append(downloads, decryptedFile.file)
              /\ chunks' = EmptyMap
              /\ totalChunks' = 0
              /\ filename' = ""
              /\ scanningStarted' = FALSE
              /\ fedFrames' = {}
              /\ fedOther' = 0
              /\ lastOp' = [op |-> "decryptSettles", outcome |-> "File Reconstructed"]
         ELSE /\ lastOp' = [op |-> "decryptSettles", outcome |-> "Decryption Failed"]
              /\ UNCHANGED <<downloads, chunks, totalChunks, filename, scanningStarted,
                             fedFrames, fedOther>>

\* (variant: a failed decryption empties the password field)
decryptSettles_FailureClearsPassword(k) ==
  LET call == inflight[k]
      decryptedFile == decryptFile(call.encryptedData, call.password, call.filename)
  IN  /\ inflight' = Remove(inflight, k)
      /\ isReconstructing' = FALSE
      /\ UNCHANGED scanHandler
      /\ UNCHANGED senderSide
      /\ IF decryptedFile.ok
         THEN /\ downloads' = Append(downloads, decryptedFile.file)
              /\ chunks' = EmptyMap
              /\ totalChunks' = 0
              /\ filename' = ""
              /\ scanningStarted' = FALSE
              /\ password' = NoPassword
              /\ fedFrames' = {}
              /\ fedOther' = 0
              /\ lastOp' = [op |-> "decryptSettles", outcome |-> "File Reconstructed"]
         ELSE /\ lastOp' = [op |-> "decryptSettles", outcome |-> "Decryption Failed"]
              /\ password' = NoPassword
              /\ UNCHANGED <<downloads, chunks, totalChunks, filename, scanningStarted,
                             fedFrames, fedOther>>

\* (variant: no finally block, the catch leaves isReconstructing set)
decryptSettles_NoFinally(k) ==
  LET call == inflight[k]
      decryptedFile == decryptFile(call.encryptedData, call.password, call.filename)
  IN  /\ inflight' = Remove(inflight, k)
      /\ UNCHANGED scanHandler
      /\ UNCHANGED senderSide
      /\ IF decryptedFile.ok
         THEN /\ downloads' = Append(downloads, decryptedFile.file)
              /\ isReconstructing' = FALSE
              /\ chunks' = EmptyMap
              /\ totalChunks' = 0
              /\ filename' = ""
              /\ scanningStarted' = FALSE
              /\ password' = NoPassword
              /\ fedFrames' = {}
              /\ fedOther' = 0
              /\ lastOp' = [op |-> "decryptSettles", outcome |-> "File Reconstructed"]
         ELSE /\ lastOp' = [op |-> "decryptSettles", outcome |-> "Decryption Failed"]
              /\ UNCHANGED <<downloads, chunks, totalChunks, filename, scanningStarted,
                             password, fedFrames, fedOther, isReconstructing>>

decryptSettles(k) ==
  LET call == inflight[k]
      decryptedFile == decryptFile(call.encryptedData, call.password, call.filename)
  IN  /\ inflight' = Remove(inflight, k)
      /\ isReconstructing' = FALSE
      /\ UNCHANGED scanHandler
      /\ UNCHANGED senderSide
      /\ IF decryptedFile.ok
         THEN /\ downloads' = Append(downloads, decryptedFile.file)
              /\ chunks' = EmptyMap
              /\ totalChunks' = 0
              /\ filename' = ""
              /\ scanningStarted' = FALSE
              /\ password' = NoPassword
              /\ fedFrames' = {}
              /\ fedOther' = 0
              /\ lastOp' = [op |-> "decryptSettles", outcome |-> "File Reconstructed"]
         ELSE /\ lastOp' = [op |-> "decryptSettles", outcome |-> "Decryption Failed"]
              /\ UNCHANGED <<downloads, chunks, totalChunks, filename, scanningStarted,
                             password, fedFrames, fedOther>>

(***************************************************************************)
(* RESET.                                                                  *)
(***************************************************************************)
\* (variant: the reset leaves the file name of the session in place)
resetScanning_KeepsFilename ==
  /\ scanningStarted
  /\ chunks' = EmptyMap
  /\ totalChunks' = 0
  /\ scanningStarted' = FALSE
  /\ password' = NoPassword
  /\ fedFrames' = {}
  /\ fedOther' = 0
  /\ lastOp' = [op |-> "resetScanning"]
  /\ UNCHANGED <<filename, isReconstructing, scanHandler, inflight, downloads>>
  /\ UNCHANGED senderSide

resetScanning ==
  /\ scanningStarted
  /\ chunks' = EmptyMap
  /\ totalChunks' = 0
  /\ filename' = ""
  /\ scanningStarted' = FALSE
  /\ password' = NoPassword
  /\ fedFrames' = {}
  /\ fedOther' = 0
  /\ lastOp' = [op |-> "resetScanning"]
  /\ UNCHANGED <<isReconstructing, scanHandler, inflight, downloads>>
  /\ UNCHANGED senderSide

(***************************************************************************)
(* The password field and the DECRYPT & DOWNLOAD button, the one caller of *)
(* reconstructAndDecrypt.  Both are rendered while scanning once           *)
(* totalChunks > 0, and a click on the button while it is disabled calls   *)
(* nothing.                                                                *)
(***************************************************************************)
decryptButtonRendered == scanningStarted /\ totalChunks > 0

\* the user types into the password field
typePassword(value) ==
  /\ decryptButtonRendered
  /\ setPassword(value)

\* (variant: the button stays enabled while a decryption is in flight)
decryptButtonDisabled_NotWhileReconstructing ==
  size(chunks) # totalChunks \/ password = NoPassword

decryptButtonDisabled ==
  size(chunks) # totalChunks \/ password = NoPassword \/ isReconstructing

\* the list under the progress bar: the indices below totalChunks that the
\* mapping lacks, counted from one
missingChunksShown ==
  {i + 1 : i \in {j \in 0..(totalChunks - 1) : j \notin DOMAIN chunks}}

clickDecrypt ==
  /\ decryptButtonRendered
  /\ IF decryptButtonDisabled
     THEN /\ lastOp' = [op |-> "clickDecrypt", outcome |-> "disabled"]
          /\ UNCHANGED <<password, scanningStarted, chunks, totalChunks, filename,
                         isReconstructing, scanHandler, inflight, downloads,
                         fedFrames, fedOther>>
          /\ UNCHANGED senderSide
     ELSE reconstructAndDecrypt

(***************************************************************************)
(* The component as the user drives it.                                    *)
(***************************************************************************)
Next ==
  \/ startScanning
  \/ startCamera
  \/ \E data \in RawInputs : handleQRDetected(data)
  \/ \E value \in Passwords : typePassword(value)
  \/ clickDecrypt
  \/ \E k \in 1..Len(inflight) : decryptSettles(k)
  \/ resetScanning

Spec == Init /\ [][Next]_vars

(***************************************************************************)
(* The component scanning the frames of the transmission, with the promise *)
(* of decryptFile always settling: the digest, key derivation and          *)
(* decryption of Web Crypto terminate, and the continuation of             *)
(* reconstructAndDecrypt is then run by the event loop.                    *)
(***************************************************************************)
NextSettling ==
  \/ startScanning
  \/ startCamera
  \/ \E data \in TransmissionFrames : handleQRDetected(data)
  \/ \E value \in Passwords : typePassword(value)
  \/ clickDecrypt
  \/ \E k \in 1..Len(inflight) : decryptSettles(k)
  \/ resetScanning

\* the promise of a decryption in flight settles: the step of decryptSettles
\* seen from inflight, the only step that takes a call out of it
settles == \E k \in 1..Len(inflight) : inflight' = Remove(inflight, k)

SpecSettling == Init /\ [][NextSettling]_vars /\ WF_inflight(settles)

(***************************************************************************)
(* The component with setPassword and reconstructAndDecrypt also called    *)
(* directly, whatever is rendered: setPassword in any state,               *)
(* reconstructAndDecrypt in any state in which no decryption is in flight. *)
(***************************************************************************)
callReconstructAndDecrypt ==
  /\ inflight = <<>>
  /\ reconstructAndDecrypt

NextCall ==
  \/ startScanning
  \/ startCamera
  \/ \E data \in RawInputs : handleQRDetected(data)
  \/ \E value \in Passwords : setPassword(value)
  \/ clickDecrypt
  \/ callReconstructAndDecrypt
  \/ \E k \in 1..Len(inflight) : decryptSettles(k)
  \/ resetScanning

SpecCall == Init /\ [][NextCall]_vars

(***************************************************************************)
(* chunkFile, statement by statement.  A call computes maxCharsPerChunk,   *)
(* then runs its while loop: each iteration pushes the slice from          *)
(* currentIndex to endIndex and moves currentIndex to endIndex.  The array *)
(* of chunks cannot grow past the engine's limit: the push that would      *)
(* exceed it throws, and the call ends without returning.                  *)
(***************************************************************************)
\* transport texts: base64 strings over two characters, up to MaxTextLen long
RECURSIVE TextsOfLength(_)
TextsOfLength(n) ==
  IF n = 0 THEN {<<>>}
  ELSE {Append(t, c) : t \in TextsOfLength(n - 1), c \in {0, 1}}
Texts == UNION {TextsOfLength(n) : n \in 0..MaxTextLen}
Capacities == 1..MaxCapacity
\* a transport text longer than the ceiling, and the chunk sizes asked for it:
\* below the ceiling, at it, just above it, and the sizes the sender passes
\* (64 * 1024 from processFileAsync, 256 * 1024 from the chunk size menu)
LongText ==
  SubSeq([i \in 1..(2 * MaxCharsCeiling + 1) |-> i % 2], 1, 2 * MaxCharsCeiling + 1)
LargeCapacities ==
  {MaxCharsCeiling, 2 * MaxCharsCeiling, 2 * MaxCharsCeiling + 2, 64 * 1024, 256 * 1024}
\* the most chunks an array holds (the engine's limit, scaled to the texts)
MaxParts == MaxTextLen + 1

\* the result of the call that has returned, if this call repeats it
Previous(data, chunkSizeBytes) ==
  IF /\ chunking.pc = "returned"
     /\ chunking.data = data
     /\ chunking.chunkSizeBytes = chunkSizeBytes
  THEN [called |-> TRUE, chunks |-> chunking.chunks]
  ELSE NoPrevious

\* (variant: the array of chunks outlives the call and is pushed to again)
callChunkFile_SharedArray(data, chunkSizeBytes) ==
  /\ chunking.pc \in {"idle", "returned", "threw"}
  /\ chunking' = [pc |-> "loop", data |-> data, chunkSizeBytes |-> chunkSizeBytes,
                  maxCharsPerChunk |-> maxCharsPerChunk(chunkSizeBytes),
                  currentIndex |-> 0, chunks |-> chunking.chunks,
                  previous |-> Previous(data, chunkSizeBytes)]
  /\ UNCHANGED <<sender, crypto, receiverSide>>

\* a call creates its locals: the empty array, the limit, the index 0
callChunkFile(data, chunkSizeBytes) ==
  /\ chunking.pc \in {"idle", "returned", "threw"}
  /\ chunking' = [pc |-> "loop", data |-> data, chunkSizeBytes |-> chunkSizeBytes,
                  maxCharsPerChunk |-> maxCharsPerChunk(chunkSizeBytes),
                  currentIndex |-> 0, chunks |-> <<>>,
                  previous |-> Previous(data, chunkSizeBytes)]
  /\ UNCHANGED <<sender, crypto, receiverSide>>

\* one iteration of the while loop
chunkFileIteration ==
  /\ chunking.pc = "loop"
  /\ chunking.currentIndex < Len(chunking.data)
  /\ Len(chunking.chunks) < MaxParts
  /\ LET endIndex == Min(chunking.currentIndex + chunking.maxCharsPerChunk,
                         Len(chunking.data))
         chunk == SubSeq(chunking.data, chunking.currentIndex + 1, endIndex)
     IN  chunking' = [chunking EXCEPT !.chunks = Append(@, chunk),
                                      !.currentIndex = endIndex]
  /\ UNCHANGED <<sender, crypto, receiverSide>>

\* the loop condition is false: return chunks
chunkFileReturns ==
  /\ chunking.pc = "loop"
  /\ ~(chunking.currentIndex < Len(chunking.data))
  /\ chunking' = [chunking EXCEPT !.pc = "returned"]
  /\ UNCHANGED <<sender, crypto, receiverSide>>

\* the array is full and the loop pushes again: the push throws
chunkFileThrows ==
  /\ chunking.pc = "loop"
  /\ chunking.currentIndex < Len(chunking.data)
  /\ Len(chunking.chunks) = MaxParts
  /\ chunking' = [chunking EXCEPT !.pc = "threw"]
  /\ UNCHANGED <<sender, crypto, receiverSide>>

NextChunk ==
  \/ \E data \in Texts, chunkSizeBytes \in Capacities : callChunkFile(data, chunkSizeBytes)
  \/ \E chunkSizeBytes \in LargeCapacities : callChunkFile(LongText, chunkSizeBytes)
  \/ chunkFileIteration
  \/ chunkFileReturns
  \/ chunkFileThrows

SpecChunk == Init /\ [][NextChunk]_vars

\* ---- the length of a serialized frame (processFileAsync) ----
MAX_QR_DATA_SIZE == 2000

\* the number of characters JSON.stringify writes for a non-negative integer
RECURSIVE Digits(_)
Digits(n) == IF n < 10 THEN 1 ELSE 1 + Digits(n \div 10)

\* a file name of 255 quotation marks (U+0022), the longest name a Linux or
\* macOS file system stores, and the file of that name whose transport text
\* is LongText's length: 2206 bytes
QuotesName == "[255 x U+0022]"
FileQ == [name |-> QuotesName, bytes |-> SubSeq([i \in 1..2206 |-> 0], 1, 2206)]
FramedFiles == {FileA, FileQ}

\* the UTF-16 code units of a file name of the model
fileNameChars(name) ==
  IF name = QuotesName THEN SubSeq([i \in 1..255 |-> 34], 1, 255)
  ELSE IF name = "a.txt" THEN <<97, 46, 116, 120, 116>>
  ELSE <<>>

\* JSON.stringify of a string: the two quotes, and every code unit written as
\* itself or as its escape (\" \\ \b \t \n \f \r two characters, the other
\* control characters and the lone surrogates \uXXXX)
quoteLength(chars) ==
  LET short == {k \in 1..Len(chars) : chars[k] \in {34, 92, 8, 9, 10, 12, 13}}
      long  == {k \in 1..Len(chars) :
                  /\ chars[k] \notin {8, 9, 10, 12, 13}
                  /\ chars[k] < 32 \/ chars[k] \in 55296..57343}
  IN  2 + Len(chars) + Cardinality(short) + 5 * Cardinality(long)

\* qrContent.length of frame i:
\* {"metadata":{"index":I,"total":T,"filename":N,"size":S},"data":D}
qrContentLength(parts, i, file) ==
  21 + Digits(i) + 9 + Digits(Len(parts)) + 12 + quoteLength(fileNameChars(file.name))
     + 8 + Digits(Len(file.bytes)) + 9 + (2 + Len(parts[i + 1])) + 1

(***************************************************************************)
(* The SenderMode component: the handlers of the selection view (file,     *)
(* password, chunk size, ENCRYPT & GENERATE QR CODES) and of the           *)
(* transmission view (next, previous, RESET).  processFile is taken in one *)
(* step: it reads file, password and chunkSize of the render it was called *)
(* in and sets qrCodes, currentQR and transmissionStarted at its end.      *)
(***************************************************************************)
FileB == [name |-> "b.txt", bytes |-> <<7>>]
EmptyFile == [name |-> "e.txt", bytes |-> <<>>]
FileC == [name |-> "c.bin", bytes |-> <<0, 255, 128>>]
Files == {FileA, FileB, FileC, EmptyFile}
\* the sizes the select offers, scaled to the files of the model
ChunkSizes == {ChunkSizeBytes \div 2, ChunkSizeBytes, 4 * ChunkSizeBytes}
SaltB == SubSeq([i \in 1..SaltLength |-> 3 * i], 1, SaltLength)
Salts == {SaltA, SaltB}

transmissionView == sender.transmissionStarted /\ Len(sender.qrCodes) > 0

handleFileSelect(selectedFile) ==
  /\ ~transmissionView
  /\ sender' = [sender EXCEPT !.file = selectedFile, !.fileSelected = TRUE,
                              !.toast = "File Selected"]
  /\ UNCHANGED <<chunking, crypto, receiverSide>>

senderSetPassword(value) ==
  /\ ~transmissionView
  /\ sender.password # value
  /\ sender' = [sender EXCEPT !.password = value, !.toast = "none"]
  /\ UNCHANGED <<chunking, crypto, receiverSide>>

setChunkSize(value) ==
  /\ ~transmissionView
  /\ sender.chunkSize # value
  /\ sender' = [sender EXCEPT !.chunkSize = value, !.toast = "none"]
  /\ UNCHANGED <<chunking, crypto, receiverSide>>

senderProcessFile(salt, iv) ==
  /\ ~transmissionView
  /\ UNCHANGED <<chunking, crypto, receiverSide>>
  /\ IF ~sender.fileSelected \/ sender.password = NoPassword
     THEN sender' = [sender EXCEPT !.toast = "Missing Information"]
     ELSE IF ~encryptFile(sender.file, sender.password, salt, iv).ok
     THEN sender' = [sender EXCEPT !.toast = "Processing Error"]
     ELSE sender' = [sender EXCEPT
                       !.qrCodes = processFile(sender.file, sender.password,
                                               sender.chunkSize, salt, iv),
                       !.currentQR = 0,
                       !.transmissionStarted = TRUE,
                       !.toast = "File Processed"]

\* (variant: ">" advances from every code, the last one included)
nextQR_PastLast ==
  /\ transmissionView
  /\ sender' = [sender EXCEPT !.currentQR = @ + 1, !.toast = "none"]
  /\ UNCHANGED <<chunking, crypto, receiverSide>>

nextQR ==
  /\ transmissionView
  /\ sender' = [sender EXCEPT
                  !.currentQR = IF @ < Len(sender.qrCodes) - 1 THEN @ + 1 ELSE @,
                  !.toast = "none"]
  /\ UNCHANGED <<chunking, crypto, receiverSide>>

prevQR ==
  /\ transmissionView
  /\ sender' = [sender EXCEPT !.currentQR = IF @ > 0 THEN @ - 1 ELSE @,
                              !.toast = "none"]
  /\ UNCHANGED <<chunking, crypto, receiverSide>>

resetTransmission ==
  /\ transmissionView
  /\ sender' = [sender EXCEPT !.file = NoFile, !.fileSelected = FALSE,
                              !.password = NoPassword, !.qrCodes = <<>>,
                              !.currentQR = 0, !.transmissionStarted = FALSE,
                              !.toast = "none"]
  /\ UNCHANGED <<chunking, crypto, receiverSide>>

NextSender ==
  \/ \E selectedFile \in Files : handleFileSelect(selectedFile)
  \/ \E value \in Passwords : senderSetPassword(value)
  \/ \E value \in ChunkSizes : setChunkSize(value)
  \/ \E salt \in Salts : senderProcessFile(salt, IvA)
  \/ nextQR
  \/ prevQR
  \/ resetTransmission

SpecSender == Init /\ [][NextSender]_vars

(***************************************************************************)
(* The cryptographic path.  processFileAsync awaits encryptFile, which     *)
(* checks its inputs, derives the key with a fresh salt and encrypts with  *)
(* a fresh nonce; it then chunks the text and builds the frames.  The      *)
(* envelope text that encryptFile returned is later given to decryptFile,  *)
(* as it is, with one bit of one character flipped, or replaced by a text  *)
(* that is too short or is not base64.  decryptFile keeps nothing between  *)
(* calls, so one call is made per envelope.                                *)
(***************************************************************************)
FlippedTexts(text) == {flipBit(text, pos, k) : pos \in 1..Len(text), k \in 0..7}

\* texts that decode to fewer bytes than salt and nonce take
ShortEnvelopes ==
  {arrayBufferToBase64(SubSeq(SaltA \o IvA, 1, n)) : n \in {0, 3, SaltLength + IvLength - 1}}
\* texts that atob rejects: a character outside the alphabet, a length of
\* 1 modulo 4, padding in front
NotBase64 == {<<InvalidChar, 0, 0, 0>>, <<1>>, <<PadChar, 0, 0, 0>>}

callProcessFileAsync(file, pass) ==
  /\ crypto.pc \in {"idle", "returned", "threw"}
  /\ crypto' = [NoCrypto EXCEPT !.pc = "validate", !.file = file, !.password = pass]
  /\ UNCHANGED <<chunking, sender, receiverSide>>

\* encryptFile: one of the input checks throws; processFileAsync rethrows
encryptFileThrows ==
  /\ crypto.pc = "validate"
  /\ inputError(crypto.file, crypto.password) # ""
  /\ crypto' = [crypto EXCEPT !.pc = "threw",
                              !.error = inputError(crypto.file, crypto.password)]
  /\ UNCHANGED <<chunking, sender, receiverSide>>

\* encryptFile: the checks pass, the file is read, the key is derived
encryptFileDerivesKey(salt) ==
  /\ crypto.pc = "validate"
  /\ inputError(crypto.file, crypto.password) = ""
  /\ crypto' = [crypto EXCEPT !.pc = "encrypt", !.salt = salt,
                              !.aesKey = deriveKey(crypto.password, salt)]
  /\ UNCHANGED <<chunking, sender, receiverSide>>

\* encryptFile: encrypt, combine, convert to base64, return
encryptFileReturns(iv) ==
  /\ crypto.pc = "encrypt"
  /\ crypto' = [crypto EXCEPT
                  !.pc = "chunk",
                  !.text = encryptFile(crypto.file, crypto.password, crypto.salt, iv).text]
  /\ UNCHANGED <<chunking, sender, receiverSide>>

\* processFileAsync: chunk the text, build the frames, return them
processFileAsyncReturns ==
  /\ crypto.pc = "chunk"
  /\ crypto' = [crypto EXCEPT
                  !.pc = "returned",
                  !.qrData = qrDataOf(chunkFile(crypto.text, ChunkSizeBytes), crypto.file)]
  /\ UNCHANGED <<chunking, sender, receiverSide>>

callDecryptFile(encryptedData, pass) ==
  /\ crypto.pc = "returned"
  /\ ~crypto.dec.made
  /\ LET decryptedFile == decryptFile(encryptedData, pass, crypto.file.name)
     IN  crypto' = [crypto EXCEPT
                      !.dec = [made |-> TRUE, encryptedData |-> encryptedData,
                               password |-> pass, ok |-> decryptedFile.ok,
                               error |-> decryptedFile.error,
                               file |-> decryptedFile.file]]
  /\ UNCHANGED <<chunking, sender, receiverSide>>

NextCrypto ==
  \/ \E file \in Files, pass \in Passwords : callProcessFileAsync(file, pass)
  \/ encryptFileThrows
  \/ \E salt \in Salts : encryptFileDerivesKey(salt)
  \/ encryptFileReturns(IvA)
  \/ processFileAsyncReturns
  \/ \E pass \in Passwords,
        encryptedData \in {crypto.text} \cup FlippedTexts(crypto.text)
                            \cup ShortEnvelopes \cup NotBase64 :
       callDecryptFile(encryptedData, pass)

SpecCrypto == Init /\ [][NextCrypto]_vars

(***************************************************************************)
(* The QRScanner component.  It renders the video element only while       *)
(* isScanning is true, so videoRef.current is the element of the mounted   *)
(* instance while it is scanning and null otherwise.  A call of            *)
(* getUserMedia, a retry timer and a stream outlive the instance that made *)
(* them: each carries the number of its instance, and a state setter of an *)
(* instance that is not mounted sets nothing.  The handlers that           *)
(* startCamera attaches to the video element (onloadedmetadata, which      *)
(* starts the scan interval, and onerror) run only once srcObject is set.  *)
(***************************************************************************)
\* instances of the component a run mounts, and calls of startCamera it makes
MaxMounts == 2
MaxStarts == 3

\* the page and its camera: window.isSecureContext, whether
\* navigator.mediaDevices.getUserMedia exists, and what the camera answers:
\* the stream at the first call, the stream at the third call only (the two
\* constrained calls are rejected), or a rejection of every call
Environments ==
  {[secure |-> a, supported |-> b, camera |-> c] :
     a \in BOOLEAN, b \in BOOLEAN, c \in {"grants", "fallback", "denies"}}

IsMounted(s, i) == s.mounted /\ s.instance = i
videoRefCurrent(s, i) == IsMounted(s, i) /\ s.isScanning

\* startCamera of instance i
startCameraOf(s, i) ==
  LET loading == IF IsMounted(s, i)
                 THEN [s EXCEPT !.isLoading = TRUE, !.error = "none"]
                 ELSE s
  IN  IF ~s.env.secure
      THEN [loading EXCEPT !.toast = "Security Error",
                           !.error = IF IsMounted(s, i) THEN "security" ELSE @,
                           !.isLoading = IF IsMounted(s, i) THEN FALSE ELSE @]
      ELSE IF ~s.env.supported
      THEN [loading EXCEPT !.toast = "Browser Support",
                           !.error = IF IsMounted(s, i) THEN "support" ELSE @,
                           !.isLoading = IF IsMounted(s, i) THEN FALSE ELSE @]
      ELSE [loading EXCEPT !.pending = Append(@, [instance |-> i, attempt |-> 1])]

\* handleCameraError of instance i
handleCameraErrorOf(s, i) ==
  IF IsMounted(s, i)
  THEN [s EXCEPT !.error = "camera", !.isLoading = FALSE, !.isScanning = FALSE,
                 !.toast = "Camera Error"]
  ELSE [s EXCEPT !.toast = "Camera Error"]

\* stopCamera of instance i, called from a render whose stream is the
\* argument (0 is null)
stopCameraOf(s, i, stream) ==
  LET stopped == IF stream # 0
                 THEN [s EXCEPT !.tracks[stream] = FALSE,
                                !.stream = IF IsMounted(s, i) THEN 0 ELSE @]
                 ELSE s
      cleared == IF s.instance = i THEN [stopped EXCEPT !.scanInterval = FALSE] ELSE stopped
      detached == IF videoRefCurrent(s, i) THEN [cleared EXCEPT !.srcObject = 0] ELSE cleared
  IN  IF IsMounted(s, i)
      THEN [detached EXCEPT !.isScanning = FALSE, !.isLoading = FALSE,
                            !.error = "none", !.lastScannedData = "null"]
      ELSE detached

\* the component mounts: the first render, then the effect calls startCamera
mount(env) ==
  /\ ~scanner.mounted
  /\ scanner.instance < MaxMounts
  /\ scanner.starts < MaxStarts
  /\ scanner.env = NoEnv \/ scanner.env = env
  /\ scanner' = startCameraOf([scanner EXCEPT !.env = env, !.instance = @ + 1,
                                              !.mounted = TRUE, !.starts = @ + 1],
                              scanner.instance + 1)
  /\ UNCHANGED scannerOutside

\* the component unmounts: the cleanup of the effect calls the stopCamera of
\* the first render, whose stream is null; the state of the instance is gone
unmount ==
  /\ scanner.mounted
  /\ scanner' = [stopCameraOf(scanner, scanner.instance, 0) EXCEPT
                   !.mounted = FALSE, !.stream = 0, !.srcObject = 0, !.handlers = FALSE]
  /\ UNCHANGED scannerOutside

\* the button START CAMERA / STOP SCANNING, disabled while isLoading
clickCameraButton ==
  /\ scanner.mounted
  /\ ~scanner.isLoading
  /\ IF scanner.isScanning
     THEN scanner' = stopCameraOf(scanner, scanner.instance, scanner.stream)
     ELSE /\ scanner.starts < MaxStarts
          /\ scanner' = startCameraOf([scanner EXCEPT !.starts = @ + 1], scanner.instance)
  /\ UNCHANGED scannerOutside

\* the button RETRY, rendered while there is an error: stopCamera, then
\* startCamera in 500 ms
retryCamera ==
  /\ scanner.mounted
  /\ scanner.error # "none"
  /\ scanner.starts < MaxStarts
  /\ scanner' = [stopCameraOf(scanner, scanner.instance, scanner.stream) EXCEPT
                   !.starts = @ + 1,
                   !.retryTimers = Append(@, scanner.instance)]
  /\ UNCHANGED scannerOutside

\* the 500 ms have passed
retryTimerFires(k) ==
  /\ scanner' = startCameraOf([scanner EXCEPT !.retryTimers = Remove(@, k)],
                              scanner.retryTimers[k])
  /\ UNCHANGED scannerOutside

Grants(call) ==
  \/ scanner.env.camera = "grants"
  \/ scanner.env.camera = "fallback" /\ call.attempt = 3

\* getUserMedia resolves with a stream whose tracks are live; startCamera
\* goes on after its await
getUserMediaResolves(k) ==
  LET call == scanner.pending[k]
      mediaStream == Len(scanner.tracks) + 1
      acquired == [scanner EXCEPT !.pending = Remove(@, k),
                                  !.tracks = Append(@, TRUE)]
  IN  /\ Grants(call)
      /\ scanner' = IF videoRefCurrent(scanner, call.instance)
                    THEN [acquired EXCEPT !.srcObject = mediaStream,
                                          !.stream = mediaStream,
                                          !.handlers = TRUE]
                    ELSE acquired
      /\ UNCHANGED scannerOutside

\* getUserMedia rejects: the next of the three calls is made, or
\* handleCameraError after the third
getUserMediaRejects(k) ==
  LET call == scanner.pending[k]
  IN  /\ ~Grants(call)
      /\ scanner' =
           IF call.attempt < 3
           THEN [scanner EXCEPT !.pending[k].attempt = @ + 1]
           ELSE handleCameraErrorOf([scanner EXCEPT !.pending = Remove(@, k)],
                                    call.instance)
      /\ UNCHANGED scannerOutside

NextScanner ==
  \/ \E env \in Environments : mount(env)
  \/ unmount
  \/ clickCameraButton
  \/ retryCamera
  \/ \E k \in 1..Len(scanner.retryTimers) : retryTimerFires(k)
  \/ \E k \in 1..Len(scanner.pending) : getUserMediaResolves(k)
  \/ \E k \in 1..Len(scanner.pending) : getUserMediaRejects(k)

SpecScanner == Init /\ [][NextScanner]_vars

(***************************************************************************)
(* The scanner with every call of getUserMedia settling (the camera of the *)
(* environment answers each call) and every retry timer firing.            *)
(***************************************************************************)
SpecScannerSettling ==
  /\ Init /\ [][NextScanner]_vars
  /\ WF_vars(\E k \in 1..Len(scanner.pending) : getUserMediaResolves(k))
  /\ WF_vars(\E k \in 1..Len(scanner.pending) : getUserMediaRejects(k))
  /\ WF_vars(\E k \in 1..Len(scanner.retryTimers) : retryTimerFires(k))

(***************************************************************************)
(* Properties.                                                             *)
(***************************************************************************)
Session == <<chunks, totalChunks, filename>>
IndexOf(data) == JSONparse(data).metadata.index.val
TotalOf(data) == JSONparse(data).metadata.total.val
NameOf(data) == JSONparse(data).metadata.filename
AllIndices == 0..(TxTotal - 1)
Collecting == size(chunks) >= 1
EndsSession == lastOp'.op = "resetScanning"
               \/ (lastOp'.op = "decryptSettles" /\ lastOp'.outcome = "File Reconstructed")

\* C1: once every frame of the transmission has been observed by a session
\* that was fed nothing but these frames and strings that are not frames, in
\* any order and with any repetition, the session is Complete (stored count =
\* total, every index held) and joining and decrypting its frames with the
\* encryption password yields the original bytes under the original filename.
C1_OutOfOrderCompletion ==
  (scanningStarted /\ fedOther = 0 /\ fedFrames = AllIndices) =>
     /\ size(chunks) = totalChunks
     /\ DOMAIN chunks = AllIndices
     /\ decryptFile(reconstructFile(chunkData(chunks)), PasswordA, filename)
          = [ok |-> TRUE, file |-> FileA]

\* C2: no acceptance loses another: in a session fed only frames of the
\* transmission, every index that has been observed is in the mapping.
C2_NoLostUpdate ==
  (scanningStarted /\ fedOther = 0) => fedFrames \subseteq DOMAIN chunks

\* C3: when reconstructAndDecrypt has passed its completeness test and called
\* reconstructFile and decryptFile, the mapping holds exactly the indices
\* 0..total-1 and the joined text is their payloads in ascending order.
C3_JoinPrecondition ==
  (lastOp.op = "reconstructAndDecrypt" /\ lastOp.outcome = "Decrypting") =>
     /\ DOMAIN chunks = 0..(totalChunks - 1)
     /\ inflight[Len(inflight)].encryptedData
          = Concat([k \in 1..totalChunks |-> chunks[k - 1].data])

\* C4: every stored frame has 0 <= index < total.
C4_StoredIndexInRange ==
  \A i \in DOMAIN chunks :
     /\ chunks[i].metadata.index.val >= 0
     /\ chunks[i].metadata.index.val < chunks[i].metadata.total.val

\* C5: observing a frame whose index is already in the mapping changes neither
\* the mapping nor total nor filename.
C5_DuplicateIgnored ==
  [][\A data \in RawInputs :
        (IsValidChunk(data) /\ IndexOf(data) \in DOMAIN chunks /\ handleQRDetected(data))
           => UNCHANGED Session]_vars

\* C6: once the session holds a frame, a frame whose total differs from the
\* session total is not stored and leaves mapping, total and filename alone
\* (stated for a handler that reads the current state).
C6_TotalMismatchRejected ==
  [][\A data \in RawInputs :
        (IsValidChunk(data) /\ Collecting /\ totalChunks > 0 /\ scanHandler = Closure
           /\ TotalOf(data) # totalChunks /\ handleQRDetected(data))
           => UNCHANGED Session]_vars

\* C7: once the session holds a frame, a frame whose filename differs from the
\* session filename is not stored and leaves mapping, total and filename alone
\* (stated for a handler that reads the current state).
C7_FilenameMismatchRejected ==
  [][\A data \in RawInputs :
        (IsValidChunk(data) /\ Collecting /\ scanHandler = Closure
           /\ NameOf(data) # filename /\ handleQRDetected(data))
           => UNCHANGED Session]_vars

\* C8: a string that does not parse as a frame is reported as an invalid code
\* and leaves mapping, total and filename as they were, in every state.
C8_ForeignDataHarmless ==
  [][\A data \in ForeignStrings :
        handleQRDetected(data)
           => (UNCHANGED Session /\ lastOp'.outcome = "Invalid QR Code")]_vars

\* a string that is not a frame was observed while frames were held
C8_Witness ==
  /\ lastOp.op = "handleQRDetected"
  /\ lastOp.outcome = "Invalid QR Code"
  /\ size(chunks) >= 1
  /\ totalChunks = TxTotal

\* C9: once the session holds a frame, total and filename change only when a
\* reset or a successful download ends the session.
C9_TotalAndFilenameFixed ==
  [][(Collecting /\ ~EndsSession) => UNCHANGED <<totalChunks, filename>>]_vars

\* C10: an index leaves the mapping only when a reset or a successful download
\* ends the session.
C10_MappingOnlyGrows ==
  [][(~EndsSession) => DOMAIN chunks \subseteq DOMAIN chunks']_vars

\* the spec's reading of the states: Complete is a non-empty mapping whose
\* size equals total
Complete == size(chunks) >= 1 /\ size(chunks) = totalChunks
Refused == lastOp'.outcome \in {"Password Required", "Missing Chunks"}
AbsentIndices == {i \in 0..(totalChunks - 1) : i \notin DOMAIN chunks}

\* C11: reconstructAndDecrypt called with a non-empty password in a state
\* that is not Complete (frames missing, or no frame observed yet) reports
\* missing chunks and starts no join and no decryption.
C11_IncompleteRefused ==
  [][(password # NoPassword /\ ~Complete /\ reconstructAndDecrypt)
       => (lastOp'.outcome = "Missing Chunks" /\ UNCHANGED inflight)]_vars

\* C12: when reconstructAndDecrypt reports missing chunks, the number it
\* reports is the number of indices in 0..total-1 absent from the mapping,
\* and the list shown under the progress bar names exactly these indices.
C12_MissingCount ==
  (lastOp.op = "reconstructAndDecrypt" /\ lastOp.outcome = "Missing Chunks") =>
     /\ lastOp.needed = Cardinality(AbsentIndices)
     /\ {m - 1 : m \in missingChunksShown} = AbsentIndices

\* C13: a call of reconstructAndDecrypt that is refused, for an empty
\* password or for missing chunks, leaves mapping, total and filename as
\* they were.
C13_RefusalKeepsSession ==
  [][(reconstructAndDecrypt /\ Refused) => UNCHANGED Session]_vars

\* a call was refused for missing chunks while frames were held, and the
\* frames are still there
C13_Witness ==
  /\ lastOp.op = "reconstructAndDecrypt"
  /\ lastOp.outcome = "Missing Chunks"
  /\ size(chunks) >= 1
  /\ totalChunks = TxTotal

\* C14: when the decryption started by reconstructAndDecrypt fails, the
\* session is Empty afterwards: no frame, total 0, no filename.
C14_FailureResets ==
  [][(lastOp'.op = "decryptSettles" /\ lastOp'.outcome = "Decryption Failed")
       => (chunks' = EmptyMap /\ totalChunks' = 0 /\ filename' = "")]_vars

\* C15: when the decryption succeeds and the file is downloaded, the session
\* is Empty afterwards: no frame, total 0, filename and password cleared,
\* scanning off; and the scanner started next hands its frames to a handler
\* that holds the empty session, so the next valid frame starts a new one.
C15_SuccessResets ==
  [][/\ (Len(downloads') > Len(downloads))
          => (/\ chunks' = EmptyMap
              /\ totalChunks' = 0
              /\ filename' = ""
              /\ password' = NoPassword
              /\ ~scanningStarted')
     /\ startScanning
          => (scanHandler'.chunks = EmptyMap /\ scanHandler'.totalChunks = 0
              /\ scanHandler'.filename = "")]_vars

\* the file of the transmission has just been downloaded
C15_Witness ==
  /\ lastOp.op = "decryptSettles"
  /\ lastOp.outcome = "File Reconstructed"
  /\ downloads[Len(downloads)] = FileA

C17_ChunkRoundTrip ==
  (chunking.pc \in {"returned", "threw"} /\ chunking.chunkSizeBytes >= 1) =>
     /\ chunking.pc = "returned"
     /\ reconstructFile(chunking.chunks) = chunking.data
     /\ \A k \in 1..Len(chunking.chunks) :
           Len(chunking.chunks[k]) <= chunking.chunkSizeBytes

\* C18: chunkFile terminates for every text and every C >= 1: each iteration
\* of its loop moves currentIndex forward, so the loop ends after at most
\* Len(T) iterations, and the call never ends by exhausting the array.
C18_ChunkTerminates ==
  [][(chunking.chunkSizeBytes >= 1 /\ chunkFileIteration)
       => chunking'.currentIndex > chunking.currentIndex]_vars

\* C19: no chunk chunkFile pushes is empty; when it returns, every chunk but
\* the last is as long as the per-chunk limit, the last holds between one
\* character and that many, and there are no chunks only for the empty text.
C19_NoEmptyChunk ==
  /\ \A k \in 1..Len(chunking.chunks) : Len(chunking.chunks[k]) >= 1
  /\ chunking.pc = "returned" =>
       /\ \A k \in 1..(Len(chunking.chunks) - 1) :
             Len(chunking.chunks[k]) = chunking.maxCharsPerChunk
       /\ \A k \in {Len(chunking.chunks)} \ {0} :
             Len(chunking.chunks[k]) <= chunking.maxCharsPerChunk
       /\ (Len(chunking.chunks) = 0) <=> (chunking.data = <<>>)

FrameMetadata(i) == JSONparse(sender.qrCodes[i]).metadata

\* C20: the frames the sender produces for one transmission agree on total,
\* filename and size (those of the file processed), total is the number of
\* frames, and the frame at position i carries index i: the indices are
\* 0..total-1, each once.
C20_FramesConsistent ==
  /\ \A i \in 1..Len(sender.qrCodes) :
        /\ FrameMetadata(i).index = Num(i - 1)
        /\ FrameMetadata(i).total = Num(Len(sender.qrCodes))
        /\ FrameMetadata(i).filename = FrameMetadata(1).filename
        /\ FrameMetadata(i).size = FrameMetadata(1).size
  /\ sender.toast = "File Processed" =>
        /\ FrameMetadata(1).filename = sender.file.name
        /\ FrameMetadata(1).size = Len(sender.file.bytes)

\* a file has just been processed into three frames or more
C20_Witness ==
  /\ sender.toast = "File Processed"
  /\ Len(sender.qrCodes) >= 3

(***************************************************************************)
(* C21: whatever chunk size is requested, no chunk that chunkFile pushes   *)
(* is longer than the ceiling of 1500 characters: the requested size can   *)
(* lower the length of a payload, never raise it above the ceiling.        *)
(***************************************************************************)
C21_PayloadCeiling ==
  /\ chunking.maxCharsPerChunk <= MaxCharsCeiling
  /\ \A i \in 1..Len(chunking.chunks) :
       Len(chunking.chunks[i]) <= Min(MaxCharsCeiling, chunking.chunkSizeBytes \div 2)

\* a call that asked for more than the ceiling returned a chunk of exactly the ceiling
C21_Witness ==
  /\ chunking.pc = "returned"
  /\ chunking.chunkSizeBytes \div 2 > MaxCharsCeiling
  /\ Len(chunking.data) > MaxCharsCeiling
  /\ \E i \in 1..Len(chunking.chunks) : Len(chunking.chunks[i]) = MaxCharsCeiling

(***************************************************************************)
(* C22: decryptFile given the text encryptFile returned for a non-empty    *)
(* file and a non-empty password, with the same password, returns a file   *)
(* whose bytes are the bytes of the original file.                         *)
(***************************************************************************)
SameText == crypto.dec.made /\ crypto.dec.encryptedData = crypto.text
SamePassword == crypto.dec.password = crypto.password

C22_RoundTrip ==
  (SameText /\ SamePassword) =>
     /\ crypto.dec.ok
     /\ crypto.dec.file.bytes = crypto.file.bytes

C22_Witness ==
  /\ SameText /\ SamePassword
  /\ crypto.file = FileA
  /\ crypto.password = PasswordA
  /\ crypto.dec.ok
  /\ crypto.dec.file.bytes = FileA.bytes

(***************************************************************************)
(* C23: encryptFile called with an empty file or an empty password throws  *)
(* an input error before any key is derived; no envelope text and no       *)
(* frames come out of the call.                                            *)
(***************************************************************************)
InvalidInput == {"Invalid file or empty file", "Password is required"}

C23_InvalidInputRejected ==
  (/\ crypto.pc \notin {"idle", "validate"}
   /\ (crypto.file.bytes = <<>> \/ crypto.password = NoPassword)) =>
     /\ crypto.pc = "threw"
     /\ crypto.error \in InvalidInput
     /\ crypto.aesKey = <<>>
     /\ crypto.text = <<>>
     /\ crypto.qrData = <<>>

C23_Witness ==
  /\ crypto.pc = "threw"
  /\ crypto.file = FileA
  /\ crypto.password = NoPassword
  /\ crypto.error = "Password is required"
  /\ crypto.aesKey = <<>>

(***************************************************************************)
(* C24: decryptFile given a text that is not base64, or that decodes to    *)
(* fewer than 28 bytes, fails with an error that differs from the error of *)
(* a failed authentication, and returns no file.                           *)
(***************************************************************************)
Malformed(text) ==
  \/ ~base64ToArrayBuffer(text).ok
  \/ Len(base64ToArrayBuffer(text).bytes) < SaltLength + IvLength
\* the error decryptFile throws when the tag does not verify
AuthenticationFailed == DecryptionFailed("OperationError")

C24_MalformedDistinct ==
  (crypto.dec.made /\ Malformed(crypto.dec.encryptedData)) =>
     /\ ~crypto.dec.ok
     /\ crypto.dec.error # AuthenticationFailed

(***************************************************************************)
(* C25: a decryption that fails for a wrong password and one that fails    *)
(* for a well-formed but altered text end the same way: decryptFile throws *)
(* the same error, the receiver shows the same message, and the session,   *)
(* the password field and the scanning view are left as they were.         *)
(***************************************************************************)
C25_SameFailure ==
  [][\A k \in 1..Len(inflight) :
       LET call == inflight[k]
           decryptedFile == decryptFile(call.encryptedData, call.password, call.filename)
       IN  (/\ decryptSettles(k)
            /\ ~decryptedFile.ok
            /\ ~Malformed(call.encryptedData)) =>
              /\ decryptedFile.error = AuthenticationFailed
              /\ lastOp' = [op |-> "decryptSettles", outcome |-> "Decryption Failed"]
              /\ isReconstructing' = FALSE
              /\ UNCHANGED <<Session, password, scanningStarted, downloads>>]_vars

\* a decryption with the right password failed on an altered text, which is
\* still in the session
C25_Witness ==
  /\ lastOp = [op |-> "decryptSettles", outcome |-> "Decryption Failed"]
  /\ password = PasswordA
  /\ size(chunks) = TxTotal
  /\ ~Malformed(reconstructFile(chunkData(chunks)))
  /\ ~decryptFile(reconstructFile(chunkData(chunks)), PasswordA, filename).ok

(***************************************************************************)
(* C26: decryptFile given the text encryptFile returned, with a password   *)
(* other than the one it was encrypted with, fails with the error of a     *)
(* failed authentication and returns no file.                              *)
(***************************************************************************)
C26_WrongPasswordFails ==
  (SameText /\ ~SamePassword) =>
     /\ ~crypto.dec.ok
     /\ crypto.dec.error = AuthenticationFailed
     /\ crypto.dec.file.bytes = <<>>

C26_Witness ==
  /\ SameText
  /\ crypto.password = PasswordA
  /\ crypto.dec.password = WrongPassword
  /\ crypto.dec.error = AuthenticationFailed

(***************************************************************************)
(* C27: when one bit of one character of the text encryptFile returned is  *)
(* flipped, decryptFile with the right password fails; it never returns a  *)
(* file for the altered text.                                              *)
(***************************************************************************)
OneBitFlipped ==
  /\ crypto.dec.made
  /\ crypto.dec.encryptedData \in FlippedTexts(crypto.text)

C27_BitFlipFails ==
  (OneBitFlipped /\ SamePassword) => ~crypto.dec.ok

(***************************************************************************)
(* C28: the size field of a frame is informational.  In every state the    *)
(* receiver reaches, a frame and the same frame with another size, handled *)
(* by receivers whose stored frames differ in their sizes only, leave the  *)
(* same indices, payloads, total and filename and show the same message;   *)
(* and the text handed to decryptFile, hence the outcome of finalization,  *)
(* does not depend on the sizes stored.                                    *)
(***************************************************************************)
Sizes == {0, Len(FileA.bytes), 999}
Resized(data, s) ==
  IF IsValidChunk(data)
  THEN JSONstringify([JSONparse(data) EXCEPT !.metadata.size = s])
  ELSE data
ResizedMap(map, s) == [i \in DOMAIN map |-> [map[i] EXCEPT !.metadata.size = s]]
ResizedSession(session, s) == [session EXCEPT !.chunks = ResizedMap(@, s)]

C28_SizeIgnored ==
  \A s \in Sizes :
    /\ chunkData(ResizedMap(chunks, s)) = chunkData(chunks)
    /\ \A data \in RawInputs :
         LET one == afterQRDetected(scanHandler, Closure, data)
             other == afterQRDetected(ResizedSession(scanHandler, s),
                                      ResizedSession(Closure, s), Resized(data, s))
         IN  /\ ResizedMap(other.chunks, 0) = ResizedMap(one.chunks, 0)
             /\ other.totalChunks = one.totalChunks
             /\ other.filename = one.filename
             /\ other.outcome = one.outcome

\* a session completed with a frame of another size, about to be decrypted
C28_Witness ==
  /\ Len(inflight) = 1
  /\ password = PasswordA
  /\ size(chunks) = TxTotal
  /\ 1 \in DOMAIN chunks
  /\ chunks[1].metadata.size = 999
  /\ decryptFile(inflight[1].encryptedData, inflight[1].password, inflight[1].filename).ok

(***************************************************************************)
(* C29: chunkFile keeps nothing between calls: a call that repeats the     *)
(* arguments of the call before it returns the same chunks, and the frames *)
(* built from them for the same file are the same strings.                 *)
(***************************************************************************)
Repeated == chunking.pc = "returned" /\ chunking.previous.called

C29_ChunkRepeatable ==
  Repeated =>
     /\ chunking.chunks = chunking.previous.chunks
     /\ qrDataOf(chunking.chunks, FileA) = qrDataOf(chunking.previous.chunks, FileA)

C29_Witness ==
  /\ Repeated
  /\ Len(chunking.chunks) >= 2
  /\ chunking.chunks = chunking.previous.chunks

(***************************************************************************)
(* C30: while a session is in progress the number of stored frames is at   *)
(* least 0 and at most the total of the session; it never exceeds the      *)
(* total.                                                                  *)
(***************************************************************************)
C30_CountWithinTotal ==
  Collecting => (size(chunks) >= 0 /\ size(chunks) <= totalChunks)

(***************************************************************************)
(* C31: handleQRDetected shows "All Chunks Received" exactly when it       *)
(* stores the frame that brings the stored count to the total of the       *)
(* session: never while an index of 0..total-1 is missing, and always when *)
(* the last missing index is stored.                                       *)
(***************************************************************************)
NoneMissing ==
  /\ size(chunks') = totalChunks'
  /\ \A i \in 0..(totalChunks' - 1) : i \in DOMAIN chunks'

C31_CompletenessSignalled ==
  [][lastOp'.op = "handleQRDetected" =>
       ((lastOp'.outcome = "All Chunks Received") <=> (chunks' # chunks /\ NoneMissing))]_vars

(* C32: every frame processFileAsync serializes, metadata and payload
   together, is at most MAX_QR_DATA_SIZE = 2000 characters long, whatever
   the file name and the chunk. *)
C32_FrameFits ==
  chunking.pc = "returned" =>
    \A file \in FramedFiles : \A i \in 0..(Len(chunking.chunks) - 1) :
      qrContentLength(chunking.chunks, i, file) <= MAX_QR_DATA_SIZE

(* C33: when resetScanning runs while the decryption of a finalize is in
   flight, no file of the reset session is emitted afterwards: a finalize
   that was in flight at the reset and settles next downloads nothing. *)
C33_ResetSilencesFinalize ==
  [][\A k \in 1..Len(inflight) :
       (lastOp.op = "resetScanning" /\ decryptSettles(k)) => downloads' = downloads]_vars

(* C34: resetScanning yields the Empty session from any state (no chunk
   stored, total 0, filename and password empty, scanning off), and a valid
   frame observed in the Empty session is adopted as the first frame of a new
   session: it is stored alone and its total and filename become the
   session's, whatever the session before the reset held. *)
EmptySession == chunks = EmptyMap /\ totalChunks = 0 /\ filename = ""

C34_ResetThenAdopt ==
  [][/\ resetScanning =>
          (chunks' = EmptyMap /\ totalChunks' = 0 /\ filename' = ""
             /\ password' = NoPassword /\ ~scanningStarted')
     /\ \A data \in RawInputs :
          (EmptySession /\ IsValidChunk(data) /\ handleQRDetected(data)) =>
             LET parsed == JSONparse(data)
             IN  /\ chunks' = MapSet(EmptyMap, parsed.metadata.index.val, parsed)
                 /\ totalChunks' = parsed.metadata.total.val
                 /\ filename' = parsed.metadata.filename]_vars

\* a frame of another file is adopted while the finalize of the session that
\* was reset is still in flight
C34_Witness ==
  /\ lastOp.op = "handleQRDetected"
  /\ inflight # <<>> /\ downloads = <<>>
  /\ password = NoPassword
  /\ size(chunks) = 1
  /\ filename # "" /\ filename # inflight[1].filename

(* C35: isReconstructing is true only while a finalize is between its join
   and the settling of its decryption: it is never true with no finalize in
   flight, and every finalize that sets it clears it in the end, whether the
   decryption succeeds or fails. *)
C35_ReconstructingBracketsFinalize ==
  /\ [](isReconstructing => inflight # <<>>)
  /\ isReconstructing ~> ~isReconstructing

\* a failed decryption has settled and the flag is down
C35_Witness ==
  /\ lastOp.op = "decryptSettles" /\ lastOp.outcome = "Decryption Failed"
  /\ ~isReconstructing /\ inflight = <<>>

(* C39: while the sender shows a transmission, currentQR is the position of
   one of its QR codes, 0 <= currentQR < qrCodes.length, whatever sequence of
   nextQR, prevQR, processFile and resetTransmission led there; nextQR at the
   last code and prevQR at the first leave currentQR as it is, and a file
   that has just been processed is shown from code 0. *)
C39_CurrentQRInRange ==
  /\ [](transmissionView =>
          (0 <= sender.currentQR /\ sender.currentQR < Len(sender.qrCodes)))
  /\ [][/\ (nextQR /\ sender.currentQR = Len(sender.qrCodes) - 1)
             => sender'.currentQR = sender.currentQR
        /\ (prevQR /\ sender.currentQR = 0) => sender'.currentQR = 0
        /\ sender'.toast = "File Processed" => sender'.currentQR = 0]_vars

\* the last of three or more codes is shown, reached by nextQR
C39_Witness ==
  /\ transmissionView
  /\ Len(sender.qrCodes) >= 3
  /\ sender.currentQR = Len(sender.qrCodes) - 1

(* C36: after the scanner mounts in a secure context whose camera grants
   access, it leaves the loading state: either the instance is scanning, with
   its interval running, or it shows an error; 'Starting camera...' does not
   stay on the screen of a mounted scanner for ever. *)
StartingCamera ==
  /\ scanner.mounted /\ scanner.isLoading
  /\ scanner.env.secure /\ scanner.env.supported
  /\ scanner.env.camera \in {"grants", "fallback"}

LeftLoading ==
  \/ ~scanner.mounted
  \/ /\ ~scanner.isLoading
     /\ (scanner.isScanning /\ scanner.scanInterval) \/ scanner.error # "none"

C36_LeavesLoading == StartingCamera ~> LeftLoading

(* C38: every stream the scanner acquires is released: once the component
   is unmounted and no call of getUserMedia and no retry is pending, the
   tracks of every stream acquired are stopped and the scan interval is
   cleared, also when the stream arrives after the unmount. *)
C38_StreamsReleased ==
  (~scanner.mounted /\ scanner.pending = <<>> /\ scanner.retryTimers = <<>>) =>
     /\ \A k \in 1..Len(scanner.tracks) : ~scanner.tracks[k]
     /\ ~scanner.scanInterval

\* the video element is never there when a stream arrives: no instance ever
\* scans, stores a stream or starts its interval
ScannerNeverScans ==
  /\ ~scanner.isScanning /\ ~scanner.scanInterval /\ ~scanner.handlers
  /\ scanner.stream = 0 /\ scanner.srcObject = 0

====
